---- MODULE Spec2Model ----
(***************************************************************************)
(* A model of graph_collator/spqr_asmviz.cpp: the separation-pair finder   *)
(* of MetagenomeScope.  Three parts of main() are modelled:                *)
(*   - the two ingestion passes over the link file (Spec),                 *)
(*   - the per-component / per-block loop with getCutVertexPair, the       *)
(*     SPQR skeleton walk and the output loop (SpecDecomp),                *)
(*   - findTwoVertexCuts as a function of one skeleton (SpecSkel).         *)
(* OGDF (BCTree, StaticSPQRTree, Skeleton) is a library: its results are   *)
(* inputs of the model, drawn from bounded families.                       *)
(***************************************************************************)
EXTENDS Integers, Sequences, FiniteSets, TLC

VARIABLES
    pc,            \* position in main()
    file,          \* the link file: a sequence of lines
    idx,           \* 1-based number of the line getline() reads next
    nodes,         \* G: node indices in creation order
    edges,         \* G: <<source, target>> in creation order
    revid2contig,  \* contig name -> node index (0: not registered)
    intid2contig,  \* node index -> contig name
    contig_id,     \* next node index
    comps,         \* per connected component, the nodes of its BC-tree
    compj,         \* main's j: the component being processed (from 1)
    treePos,       \* position of bcTreeNode in forall_nodes(bcTreeNode, bc.bcTree())
    skelPos,       \* position of n in forall_nodes(n, T)
    memberNodes,   \* main's set<int> memberNodes
    pairs,         \* the global vector pairs
    sk2orig,       \* main's map sk2orig (0: no entry)
    ofile,         \* the records written to the output file
    skel,          \* SpecSkel: the skeleton findTwoVertexCuts is called on
    prov,          \* history: for each entry of pairs, its block and its rule
    oprov          \* history: for each record of ofile, its block, rule and pair

ingestVars == <<file, idx, nodes, edges, revid2contig, contig_id>>

decompVars == <<comps, compj, treePos, skelPos, memberNodes, pairs, sk2orig, ofile, skel, prov, oprov>>

vars == <<pc, intid2contig, ingestVars, decompVars>>

(***************************************************************************)
(* Bounds of the model.                                                    *)
(***************************************************************************)
NumNames == 2
MaxLines == 3

\* The seven fields a line must yield: iss >> a >> b >> c >> d >> e >> f >> g.
RequiredFields == 7

AllNames ==
    <<"A", "B", "C", "D", "E", "F", "G", "H", "I", "J", "K", "L", "M",
      "N", "O", "P", "Q", "R", "S", "T", "U", "V", "W", "X", "Y", "Z">>
Names == {AllNames[i] : i \in 1..NumNames}

\* A line: its first and third fields and the number of leading fields that
\* extract (a line cut short after five fields yields five).
Lines == [a : Names, c : Names, nf : {5, RequiredFields}]

Files == UNION {[1..n -> Lines] : n \in 0..MaxLines}

(***************************************************************************)
(* Ingestion: main(), the node registration pass and the edge pass.        *)
(***************************************************************************)
ParseOkFiveFields(line) == line.nf >= 5

\* !(iss >> a >> b >> c >> d >> e >> f >> g) is false: all seven extracted.
ParseOk(line) == line.nf >= RequiredFields

\* if (revid2contig.find(x) == end) { G.newNode(contig_id); ...; contig_id++ }
\* on the state st = [nodes, rev, int, next].
Register(st, x) ==
    IF st.rev[x] = 0
    THEN [nodes |-> Append(st.nodes, st.next),
          rev   |-> [st.rev EXCEPT ![x] = st.next],
          int   |-> [st.int EXCEPT ![st.next] = x],
          next  |-> st.next + 1]
    ELSE st

RegisterSwapped(st, a, c) == Register(Register(st, c), a)

\* The body of the first while loop: a is looked up and registered, then c.
RegisterBoth(st, a, c) == Register(Register(st, a), c)

Init ==
    /\ pc = "pass1"
    /\ file \in Files
    /\ idx = 1
    /\ nodes = <<>>
    /\ edges = <<>>
    /\ revid2contig = [x \in Names |-> 0]
    /\ intid2contig = [i \in 1..(2 * MaxLines) |-> ""]
    /\ contig_id = 1
    /\ comps = <<>>
    /\ compj = 1
    /\ treePos = 1
    /\ skelPos = 1
    /\ memberNodes = {}
    /\ pairs = <<>>
    /\ sk2orig = <<>>
    /\ ofile = <<>>
    /\ skel = <<>>
    /\ prov = <<>>
    /\ oprov = <<>>

\* One iteration of the first loop on a line that parses.
RegisterLine ==
    /\ pc = "pass1"
    /\ idx <= Len(file)
    /\ ParseOk(file[idx])
    /\ LET st == RegisterBoth([nodes |-> nodes, rev |-> revid2contig,
                               int |-> intid2contig, next |-> contig_id],
                              file[idx].a, file[idx].c)
       IN /\ nodes' = st.nodes
          /\ revid2contig' = st.rev
          /\ intid2contig' = st.int
          /\ contig_id' = st.next
    /\ idx' = idx + 1
    /\ UNCHANGED <<pc, file, edges, decompVars>>

\* The first loop ends: getline() fails at end of file, or the line does not
\* parse and the loop breaks.  The file is then reopened.
Pass1End ==
    /\ pc = "pass1"
    /\ \/ idx > Len(file)
       \/ idx <= Len(file) /\ ~ParseOk(file[idx])
    /\ pc' = "pass2"
    /\ idx' = 1
    /\ UNCHANGED <<file, nodes, edges, revid2contig, intid2contig, contig_id, decompVars>>

NewEdgeSimple(es, first, second) ==
    IF first = second
       \/ \E i \in 1..Len(es) : es[i] \in {<<first, second>>, <<second, first>>}
    THEN es
    ELSE Append(es, <<first, second>>)

\* edge x = G.newEdge(node(first), node(second));
NewEdge(es, first, second) == Append(es, <<first, second>>)

\* One iteration of the second loop on a line that parses.
InsertLine ==
    /\ pc = "pass2"
    /\ idx <= Len(file)
    /\ ParseOk(file[idx])
    /\ edges' = NewEdge(edges, revid2contig[file[idx].a], revid2contig[file[idx].c])
    /\ idx' = idx + 1
    /\ UNCHANGED <<pc, file, nodes, revid2contig, intid2contig, contig_id, decompVars>>

\* The second loop ends the same two ways.
Pass2End ==
    /\ pc = "pass2"
    /\ \/ idx > Len(file)
       \/ idx <= Len(file) /\ ~ParseOk(file[idx])
    /\ pc' = "built"
    /\ UNCHANGED <<file, idx, nodes, edges, revid2contig, intid2contig, contig_id, decompVars>>

Next == RegisterLine \/ Pass1End \/ InsertLine \/ Pass2End

Spec == Init /\ [][Next]_vars

(***************************************************************************)
(* Skeletons.  A skeleton is [type, nrNodes, orig, edges]: type is         *)
(* spqr.typeOf(n); its nodes have the indices 0..nrNodes-1, visited in     *)
(* that order by forall_nodes; orig[i + 1] is the index in G of the node   *)
(* with index i (original(Nn, bc, GC, sk)); an edge is                     *)
(* [source, target, virtual] over node indices, in forall_edges order.     *)
(***************************************************************************)
\* getTypeString: the switch over typeOf(n), with "unkown" as the default.
getTypeString(type) ==
    CASE type = 0 -> "S"
      [] type = 1 -> "P"
      [] type = 2 -> "R"
      [] OTHER    -> "unkown"

\* make_pair(sk2orig[e->source()->index()], sk2orig[e->target()->index()])
SkPair(s2o, e) == <<s2o[e.source], s2o[e.target]>>

RECURSIVE VirtualCuts(_, _, _)
\* forall_edges(e, G) if (sk.isVirtual(e)) pairs.push_back(...): the loop of
\* the R branch, and the push_back of the S branch's loop.
VirtualCuts(es, s2o, i) ==
    IF i > Len(es) THEN <<>>
    ELSE (IF es[i].virtual THEN <<SkPair(s2o, es[i])>> ELSE <<>>)
            \o VirtualCuts(es, s2o, i + 1)

FirstVirtual(virtualCount) == virtualCount > 0

\* if (virtualCount > 1)
SecondVirtual(virtualCount) == virtualCount > 1

RECURSIVE ParallelCuts(_, _, _, _)
\* The loop of the P branch: count the virtual edges, push the pair of the
\* edge that makes the count exceed one, and break.
ParallelCuts(es, s2o, i, virtualCount) ==
    IF i > Len(es) THEN <<>>
    ELSE IF es[i].virtual
         THEN IF SecondVirtual(virtualCount + 1)
              THEN <<SkPair(s2o, es[i])>>
              ELSE ParallelCuts(es, s2o, i + 1, virtualCount + 1)
         ELSE ParallelCuts(es, s2o, i + 1, virtualCount)

\* The map `adjacent` after the S branch's loop.  The else has no braces: the
\* entry (source, target) is set for a real edge only, the entry
\* (target, source) for every edge.
Adjacent(es, s2o) ==
    {SkPair(s2o, es[i]) : i \in {m \in 1..Len(es) : ~es[m].virtual}}
        \cup {<<s2o[es[i].target], s2o[es[i].source]>> : i \in 1..Len(es)}

NonAdjacentBothWays(adjacent, x, y) == <<x, y>> \notin adjacent /\ <<y, x>> \notin adjacent

\* adjacent.find((x, y)) == end or adjacent.find((y, x)) == end
NonAdjacent(adjacent, x, y) == <<x, y>> \notin adjacent \/ <<y, x>> \notin adjacent

RECURSIVE NonAdjacentCuts(_, _, _, _)
\* for (i = 0; i < nrNodes-1; i++) for (j = i+1; j < nrNodes; j++) ...
\* over allnodes (a sequence: allnodes[i + 1] is the C++ allnodes[i]).
NonAdjacentCuts(adjacent, allnodes, i, j) ==
    IF i >= Len(allnodes) - 1 THEN <<>>
    ELSE IF j >= Len(allnodes) THEN NonAdjacentCuts(adjacent, allnodes, i + 1, i + 2)
    ELSE (IF NonAdjacent(adjacent, allnodes[i + 1], allnodes[j + 1])
          THEN <<<<allnodes[i + 1], allnodes[j + 1]>>>> ELSE <<>>)
            \o NonAdjacentCuts(adjacent, allnodes, i, j + 1)

\* findTwoVertexCuts: the pairs it pushes onto `pairs`, in order.
findTwoVertexCuts(sk, s2o, type) ==
    LET allnodes == [m \in 1..sk.nrNodes |-> s2o[m - 1]]
    IN CASE type = "R" -> VirtualCuts(sk.edges, s2o, 1)
         [] type = "P" -> ParallelCuts(sk.edges, s2o, 1, 0)
         [] type = "S" -> VirtualCuts(sk.edges, s2o, 1)
                            \o NonAdjacentCuts(Adjacent(sk.edges, s2o), allnodes, 0, 1)
         [] OTHER      -> <<>>

\* sk2orig[Nn->index()] = cn->index() for every node of the skeleton.
SetSk2orig(s2o, sk) ==
    [i \in DOMAIN s2o |-> IF i < sk.nrNodes THEN sk.orig[i + 1] ELSE s2o[i]]

(***************************************************************************)
(* The SPQR-trees StaticSPQRTree returns, drawn from a bounded family.     *)
(* A shape is a center skeleton (a cycle: S, a bond: P, or K4: R) with a   *)
(* kind for each of its edges:                                             *)
(*   0  a real edge;                                                       *)
(*   1  a virtual edge to a P-node of two real edges (a doubled edge);     *)
(*   2  a virtual edge to an S-node, a triangle through one new node;      *)
(*   3  a virtual edge to an R-node, K4 through two new nodes;             *)
(*   4  a virtual edge to a P-node of one real edge and a virtual edge to  *)
(*      an S-node (an edge beside a path through one new node).            *)
(* No two S-nodes and no two P-nodes are adjacent, every S- and P-node has *)
(* three edges or more and K4 is 3-connected, so the tree is the SPQR-tree *)
(* of the block obtained by gluing the skeletons at their virtual edges.   *)
(***************************************************************************)
MaxCycle == 4
MaxBond == 4
MaxVirtual == 2
MaxBlocks == 3

SkEdge(u, v, virt) == [source |-> u, target |-> v, virtual |-> virt]

K4Ends == <<<<0, 1>>, <<0, 2>>, <<0, 3>>, <<1, 2>>, <<1, 3>>, <<2, 3>>>>

\* The ends of the center's edges, over the node indices 0..n-1.
CenterEnds(center, k) ==
    CASE center = "S" -> [i \in 1..k |-> <<i - 1, i % k>>]
      [] center = "P" -> [i \in 1..k |-> <<0, 1>>]
      [] center = "R" -> K4Ends

CenterSize(center, k) == CASE center = "S" -> k [] center = "P" -> 2 [] center = "R" -> 4

CenterType(center) == CASE center = "S" -> 0 [] center = "P" -> 1 [] center = "R" -> 2

NewCount(kind) == CASE kind \in {2, 4} -> 1 [] kind = 3 -> 2 [] OTHER -> 0

RECURSIVE NewBefore(_, _)
NewBefore(kinds, e) == IF e <= 1 THEN 0 ELSE NewBefore(kinds, e - 1) + NewCount(kinds[e - 1])

\* The skeletons hanging from a center edge of the given kind between the
\* block nodes u and v; w is the first new block node.
ChildSkeletons(u, v, w, kind) ==
    LET bond(third) == [type |-> 1, nrNodes |-> 2, orig |-> <<u, v>>,
                        edges |-> <<SkEdge(0, 1, TRUE), SkEdge(0, 1, FALSE), third>>]
        triangle == [type |-> 0, nrNodes |-> 3, orig |-> <<u, w, v>>,
                     edges |-> <<SkEdge(0, 1, FALSE), SkEdge(1, 2, FALSE), SkEdge(2, 0, TRUE)>>]
        k4 == [type |-> 2, nrNodes |-> 4, orig |-> <<u, v, w, w + 1>>,
               edges |-> [i \in 1..6 |-> SkEdge(K4Ends[i][1], K4Ends[i][2], i = 1)]]
    IN CASE kind = 1 -> <<bond(SkEdge(0, 1, FALSE))>>
         [] kind = 2 -> <<triangle>>
         [] kind = 3 -> <<k4>>
         [] kind = 4 -> <<bond(SkEdge(0, 1, TRUE)), triangle>>
         [] OTHER    -> <<>>

\* The edges of the block that a center edge of the given kind stands for.
ChildEdges(u, v, w, kind) ==
    CASE kind = 0 -> <<<<u, v>>>>
      [] kind = 1 -> <<<<u, v>>, <<u, v>>>>
      [] kind = 2 -> <<<<u, w>>, <<w, v>>>>
      [] kind = 3 -> <<<<u, w>>, <<u, w + 1>>, <<v, w>>, <<v, w + 1>>, <<w, w + 1>>>>
      [] kind = 4 -> <<<<u, v>>, <<u, w>>, <<w, v>>>>

\* A shape [center, k, kinds] as a block over the local nodes 1..n.
ShapeNodes(sh) == CenterSize(sh.center, sh.k) + NewBefore(sh.kinds, Len(sh.kinds) + 1)

RECURSIVE ShapeChildren(_, _)
ShapeChildren(sh, e) ==
    IF e > Len(sh.kinds) THEN <<>>
    ELSE LET ends == CenterEnds(sh.center, sh.k)[e]
             w == CenterSize(sh.center, sh.k) + NewBefore(sh.kinds, e) + 1
         IN ChildSkeletons(ends[1] + 1, ends[2] + 1, w, sh.kinds[e]) \o ShapeChildren(sh, e + 1)

RECURSIVE ShapeEdges(_, _)
ShapeEdges(sh, e) ==
    IF e > Len(sh.kinds) THEN <<>>
    ELSE LET ends == CenterEnds(sh.center, sh.k)[e]
             w == CenterSize(sh.center, sh.k) + NewBefore(sh.kinds, e) + 1
         IN ChildEdges(ends[1] + 1, ends[2] + 1, w, sh.kinds[e]) \o ShapeEdges(sh, e + 1)

\* The skeletons of the shape's SPQR-tree, the center first.
ShapeSkeletons(sh) ==
    LET ends == CenterEnds(sh.center, sh.k)
        n0 == CenterSize(sh.center, sh.k)
    IN <<[type |-> CenterType(sh.center), nrNodes |-> n0, orig |-> [i \in 1..n0 |-> i],
          edges |-> [e \in 1..Len(ends) |-> SkEdge(ends[e][1], ends[e][2], sh.kinds[e] # 0)]]>>
          \o ShapeChildren(sh, 1)

NumVirtual(kinds) == Cardinality({e \in 1..Len(kinds) : kinds[e] # 0})

\* The kinds a center's edges may have (no S beside S, no P beside P).
KindsOf(center) ==
    CASE center = "S" -> {0, 1, 3, 4}
      [] center = "P" -> {0, 2, 3}
      [] center = "R" -> {0, 1, 2, 3, 4}

ShapesOf(center, k) ==
    {[center |-> center, k |-> k, kinds |-> ks] :
        ks \in {f \in [1..Len(CenterEnds(center, k)) -> KindsOf(center)] :
                    NumVirtual(f) <= MaxVirtual}}

\* The blocks StaticSPQRTree is built for: more than two edges.
Shapes ==
    UNION {ShapesOf("S", k) : k \in 3..MaxCycle}
        \cup UNION {ShapesOf("P", k) : k \in 3..MaxBond}
        \cup ShapesOf("R", 6)

\* A single edge and a doubled edge: blocks of at most two edges.
SmallBonds == {[center |-> "P", k |-> k, kinds |-> [e \in 1..k |-> 0]] : k \in 1..2}

(***************************************************************************)
(* The BC-trees BCTree returns.  A scenario is a list of blocks (shapes),  *)
(* each glued to the one before it at a cut vertex or starting a new       *)
(* connected component: every component is a chain of blocks.  Block i     *)
(* takes the nodes First(i)..Last(i) of G; its first node is the cut       *)
(* vertex shared with the block before, its last node the one shared with  *)
(* the block after.  lead: a first component without any block (a single   *)
(* node) precedes the others.  root and up fix the directions of the       *)
(* BC-tree's edges: the tree of a component is rooted at the block nearest *)
(* to block number root, and its edges point from child to parent (up) or  *)
(* from parent to child.                                                   *)
(***************************************************************************)
\* The blocks of the chains: an edge, a doubled edge, a triangle, a 4-cycle.
ChainShapes ==
    SmallBonds \cup {[center |-> "S", k |-> k, kinds |-> [e \in 1..k |-> 0]] : k \in 3..4}

RECURSIVE LastNode(_, _)
\* The last node of G that block i uses.
LastNode(sc, i) ==
    IF i = 0 THEN (IF sc.lead THEN 1 ELSE 0)
    ELSE IF i > 1 /\ sc.glued[i - 1]
         THEN LastNode(sc, i - 1) + ShapeNodes(sc.blocks[i]) - 1
         ELSE LastNode(sc, i - 1) + ShapeNodes(sc.blocks[i])

FirstNode(sc, i) == LastNode(sc, i) - ShapeNodes(sc.blocks[i]) + 1

\* The node of G that the local node l of block i is: the last center node of
\* the shape is the block's last node.
Handle(sc, i, l) ==
    LET sh == sc.blocks[i]
        attach == CenterSize(sh.center, sh.k)
    IN IF l < attach THEN FirstNode(sc, i) + l - 1
       ELSE IF l = attach THEN LastNode(sc, i)
       ELSE FirstNode(sc, i) + l - 2

\* The first and the last block of block i's component.
CompLo(sc, i) == CHOOSE lo \in 1..i :
    /\ lo = 1 \/ ~sc.glued[lo - 1]
    /\ \A m \in (lo + 1)..i : sc.glued[m - 1]

CompHi(sc, i) == CHOOSE hi \in i..Len(sc.blocks) :
    /\ hi = Len(sc.blocks) \/ ~sc.glued[hi]
    /\ \A m \in i..(hi - 1) : sc.glued[m]

\* The root block of block i's component.
RootOf(sc, i) ==
    IF sc.root < CompLo(sc, i) THEN CompLo(sc, i)
    ELSE IF sc.root > CompHi(sc, i) THEN CompHi(sc, i)
    ELSE sc.root

\* The cut vertices at the far ends of the BC-tree edges between block i and
\* its children, and between block i and its parent.
ChildCuts(sc, i) ==
    (IF i > CompLo(sc, i) /\ i <= RootOf(sc, i) THEN <<FirstNode(sc, i)>> ELSE <<>>)
        \o (IF i < CompHi(sc, i) /\ i >= RootOf(sc, i) THEN <<LastNode(sc, i)>> ELSE <<>>)

ParentCuts(sc, i) ==
    IF i > RootOf(sc, i) THEN <<FirstNode(sc, i)>>
    ELSE IF i < RootOf(sc, i) THEN <<LastNode(sc, i)>>
    ELSE <<>>

\* The BC-tree node of block i: the edges of the block (GC after
\* getBiComponent), its SPQR-tree when it has more than two edges, and the
\* cut vertices of the C-nodes at the far ends of bcT.inEdges / bcT.outEdges.
BNode(sc, i) ==
    LET sh == sc.blocks[i]
        es == ShapeEdges(sh, 1)
        sks == IF Len(es) > 2 THEN ShapeSkeletons(sh) ELSE <<>>
    IN [isB |-> TRUE,
        cut |-> 0,
        edges |-> [e \in 1..Len(es) |-> <<Handle(sc, i, es[e][1]), Handle(sc, i, es[e][2])>>],
        spqr |-> [n \in 1..Len(sks) |->
                    [sks[n] EXCEPT !.orig = [m \in 1..sks[n].nrNodes |-> Handle(sc, i, sks[n].orig[m])]]],
        incoming |-> IF sc.up THEN ChildCuts(sc, i) ELSE ParentCuts(sc, i),
        outgoing |-> IF sc.up THEN ParentCuts(sc, i) ELSE ChildCuts(sc, i)]

\* The BC-tree node of the cut vertex v.
CNode(v) ==
    [isB |-> FALSE, cut |-> v, edges |-> <<>>, spqr |-> <<>>,
     incoming |-> <<>>, outgoing |-> <<>>]

\* The nodes of the BC-tree of the component of the blocks lo..hi.
TreeNodes(sc, lo, hi) ==
    [p \in 1..(2 * (hi - lo) + 1) |->
        IF p % 2 = 1 THEN BNode(sc, lo + (p - 1) \div 2)
        ELSE CNode(LastNode(sc, lo + p \div 2 - 1))]

\* The components of the scenario, in the order of startNodes.
CompsOf(sc) ==
    LET starts == {i \in 1..Len(sc.blocks) : i = 1 \/ ~sc.glued[i - 1]}
        nth(c) == CHOOSE i \in starts : Cardinality({m \in starts : m <= i}) = c
        trees == [c \in 1..Cardinality(starts) |-> TreeNodes(sc, nth(c), CompHi(sc, nth(c)))]
    IN IF sc.lead THEN <<<<>>>> \o trees ELSE trees

\* Chains of small blocks, with every gluing, root and edge direction.
ChainScenarios ==
    UNION {[blocks : [1..n -> ChainShapes], glued : [1..(n - 1) -> BOOLEAN],
            root : 1..n, up : BOOLEAN, lead : BOOLEAN] : n \in 1..MaxBlocks}

\* A component that is one block, of any shape.
BlockScenarios ==
    {[blocks |-> <<sh>>, glued |-> <<>>, root |-> 1, up |-> TRUE, lead |-> FALSE] : sh \in Shapes}

Scenarios == ChainScenarios \cup BlockScenarios

(***************************************************************************)
(* main(): the loop over the components and over the nodes of each         *)
(* component's BC-tree.                                                    *)
(***************************************************************************)
\* The nodes of a graph given by its edges (no node of GC is isolated after
\* getBiComponent).
EndNodes(es) == {es[e][1] : e \in 1..Len(es)} \cup {es[e][2] : e \in 1..Len(es)}

RECURSIVE ReachFrom(_, _, _)
\* The nodes of V reached from the set seen along edges inside V.
ReachFrom(V, es, seen) ==
    LET more == {v \in V \ seen : \E e \in 1..Len(es) :
                    \/ es[e][1] \in seen /\ es[e][2] = v
                    \/ es[e][2] \in seen /\ es[e][1] = v}
    IN IF more = {} THEN seen ELSE ReachFrom(V, es, seen \cup more)

isConnected(V, es) == V = {} \/ ReachFrom(V, es, {CHOOSE v \in V : TRUE}) = V

\* ogdf::isBiconnected: connected, and no node whose removal disconnects.
isBiconnected(V, es) == isConnected(V, es) /\ \A v \in V : isConnected(V \ {v}, es)

\* ogdf::isLoopFree
isLoopFree(es) == \A e \in 1..Len(es) : es[e][1] # es[e][2]

\* The negation of (!biconnected || nrEdges <= 2 || !loopfree).
Eligible(es) == isBiconnected(EndNodes(es), es) /\ ~(Len(es) <= 2) /\ isLoopFree(es)

\* getBiComponent: the indices in G of the nodes of the block.
getBiComponent(bnode) == EndNodes(bnode.edges)

\* getCutVertexPair: the pairs it pushes (none or one).  With two outgoing
\* edges n1 and n2 are both taken from out1.
getCutVertexPair(bnode) ==
    IF Len(bnode.incoming) + Len(bnode.outgoing) = 2
    THEN IF Len(bnode.incoming) = 2
         THEN <<<<bnode.incoming[1], bnode.incoming[Len(bnode.incoming)]>>>>
         ELSE IF Len(bnode.outgoing) = 2
              THEN <<<<bnode.outgoing[1], bnode.outgoing[1]>>>>
              ELSE <<<<bnode.outgoing[1], bnode.incoming[1]>>>>
    ELSE <<>>

RECURSIVE Ascending(_)
\* The iteration order of a set<int>.
Ascending(S) ==
    IF S = {} THEN <<>>
    ELSE LET m == CHOOSE x \in S : \A y \in S : x <= y
         IN <<m>> \o Ascending(S \ {m})

\* One line of the output: the two contig names, then the names of memberNodes.
OutputRecord(pr, members) ==
    [first |-> intid2contig[pr[1]], second |-> intid2contig[pr[2]],
     members |-> [m \in 1..Cardinality(members) |-> intid2contig[Ascending(members)[m]]]]

\* History: the block and the rule that pushed n pairs.
Tags(n, rule) == [m \in 1..n |-> [comp |-> compj, node |-> treePos, rule |-> rule]]

MaxSkNodes == IF MaxCycle > 4 THEN MaxCycle ELSE 4

InitDecomp ==
    /\ pc = "tree"
    /\ \E sc \in Scenarios : comps = CompsOf(sc)
    /\ compj = 1
    /\ treePos = 1
    /\ skelPos = 1
    /\ memberNodes = {}
    /\ pairs = <<>>
    /\ sk2orig = [i \in 0..(MaxSkNodes - 1) |-> 0]
    /\ ofile = <<>>
    /\ skel = <<>>
    /\ prov = <<>>
    /\ oprov = <<>>
    /\ intid2contig = [i \in 1..Len(AllNames) |-> AllNames[i]]
    /\ file = <<>>
    /\ idx = 1
    /\ nodes = <<>>
    /\ edges = <<>>
    /\ revid2contig = <<>>
    /\ contig_id = 1

CurNode == comps[compj][treePos]

\* if (bc.numberOfBComps() == 0) continue;
NoBlocks ==
    /\ pc = "tree"
    /\ compj <= Len(comps)
    /\ comps[compj] = <<>>
    /\ compj' = compj + 1
    /\ UNCHANGED <<pc, intid2contig, ingestVars, comps, treePos, skelPos, memberNodes,
                   pairs, sk2orig, ofile, skel, prov, oprov>>

\* forall_nodes(bcTreeNode, bc.bcTree()) is over: the next component.
NextComponent ==
    /\ pc = "tree"
    /\ compj <= Len(comps)
    /\ comps[compj] # <<>>
    /\ treePos > Len(comps[compj])
    /\ compj' = compj + 1
    /\ treePos' = 1
    /\ UNCHANGED <<pc, intid2contig, ingestVars, comps, skelPos, memberNodes,
                   pairs, sk2orig, ofile, skel, prov, oprov>>

\* The loop over the components is over: return 0.
Finish ==
    /\ pc = "tree"
    /\ compj > Len(comps)
    /\ pc' = "done"
    /\ UNCHANGED <<intid2contig, ingestVars, decompVars>>

\* if (bc.typeOfBNode(bcTreeNode) == 0) fails: a C-node.
SkipCNode ==
    /\ pc = "tree"
    /\ compj <= Len(comps)
    /\ treePos <= Len(comps[compj])
    /\ ~CurNode.isB
    /\ treePos' = treePos + 1
    /\ UNCHANGED <<pc, intid2contig, ingestVars, comps, compj, skelPos, memberNodes,
                   pairs, sk2orig, ofile, skel, prov, oprov>>

SkipBlockAfterShortcut ==
    /\ pc = "tree"
    /\ compj <= Len(comps)
    /\ treePos <= Len(comps[compj])
    /\ CurNode.isB
    /\ ~Eligible(CurNode.edges)
    /\ memberNodes' = getBiComponent(CurNode)
    /\ pairs' = pairs \o getCutVertexPair(CurNode)
    /\ prov' = prov \o Tags(Len(getCutVertexPair(CurNode)), "cut")
    /\ treePos' = treePos + 1
    /\ UNCHANGED <<pc, intid2contig, ingestVars, comps, compj, skelPos,
                   sk2orig, ofile, skel, oprov>>

\* A B-node that fails the test: memberNodes is assigned, then `continue`.
SkipBlock ==
    /\ pc = "tree"
    /\ compj <= Len(comps)
    /\ treePos <= Len(comps[compj])
    /\ CurNode.isB
    /\ ~Eligible(CurNode.edges)
    /\ memberNodes' = getBiComponent(CurNode)
    /\ treePos' = treePos + 1
    /\ UNCHANGED <<pc, intid2contig, ingestVars, comps, compj, skelPos,
                   pairs, sk2orig, ofile, skel, prov, oprov>>

\* A B-node that passes the test: memberNodes is assigned, getCutVertexPair
\* runs and the SPQR-tree is built.
EnterBlock ==
    /\ pc = "tree"
    /\ compj <= Len(comps)
    /\ treePos <= Len(comps[compj])
    /\ CurNode.isB
    /\ Eligible(CurNode.edges)
    /\ memberNodes' = getBiComponent(CurNode)
    /\ pairs' = pairs \o getCutVertexPair(CurNode)
    /\ prov' = prov \o Tags(Len(getCutVertexPair(CurNode)), "cut")
    /\ skelPos' = 1
    /\ pc' = "spqr"
    /\ UNCHANGED <<intid2contig, ingestVars, comps, compj, treePos, sk2orig, ofile, skel, oprov>>

\* One iteration of forall_nodes(n, T): sk2orig is set for the skeleton's
\* nodes and findTwoVertexCuts is called.
VisitSkeleton ==
    /\ pc = "spqr"
    /\ skelPos <= Len(CurNode.spqr)
    /\ LET sk == CurNode.spqr[skelPos]
           type == getTypeString(sk.type)
           found == findTwoVertexCuts(sk, SetSk2orig(sk2orig, sk), type)
       IN /\ sk2orig' = SetSk2orig(sk2orig, sk)
          /\ pairs' = pairs \o found
          /\ prov' = prov \o Tags(Len(found), type)
    /\ skelPos' = skelPos + 1
    /\ UNCHANGED <<pc, intid2contig, ingestVars, comps, compj, treePos, memberNodes,
                   ofile, skel, oprov>>

WritePairsKeep ==
    /\ pc = "spqr"
    /\ skelPos > Len(CurNode.spqr)
    /\ ofile' = ofile \o [i \in 1..Len(pairs) |-> OutputRecord(pairs[i], memberNodes)]
    /\ oprov' = oprov \o [i \in 1..Len(pairs) |-> [comp |-> prov[i].comp, node |-> prov[i].node,
                                                    rule |-> prov[i].rule, pair |-> pairs[i]]]
    /\ treePos' = treePos + 1
    /\ pc' = "tree"
    /\ UNCHANGED <<intid2contig, ingestVars, comps, compj, skelPos, memberNodes, sk2orig, skel,
                   pairs, prov>>

\* The output loop over pairs, then pairs.clear().
WritePairs ==
    /\ pc = "spqr"
    /\ skelPos > Len(CurNode.spqr)
    /\ ofile' = ofile \o [i \in 1..Len(pairs) |-> OutputRecord(pairs[i], memberNodes)]
    /\ oprov' = oprov \o [i \in 1..Len(pairs) |-> [comp |-> prov[i].comp, node |-> prov[i].node,
                                                    rule |-> prov[i].rule, pair |-> pairs[i]]]
    /\ pairs' = <<>>
    /\ prov' = <<>>
    /\ treePos' = treePos + 1
    /\ pc' = "tree"
    /\ UNCHANGED <<intid2contig, ingestVars, comps, compj, skelPos, memberNodes, sk2orig, skel>>

NextDecomp ==
    \/ NoBlocks
    \/ NextComponent
    \/ Finish
    \/ SkipCNode
    \/ SkipBlock
    \/ EnterBlock
    \/ VisitSkeleton
    \/ WritePairs

SpecDecomp == InitDecomp /\ [][NextDecomp]_vars

(***************************************************************************)
(* findTwoVertexCuts on one skeleton: the body of forall_nodes(n, T) for a *)
(* skeleton with any direction and any real/virtual flag on each edge.     *)
(***************************************************************************)
\* The largest value of typeOf(n) drawn (0: S, 1: P, 2: R).
MaxTypeValue == 3

\* The skeletons over the given ends: each edge real or virtual, in either
\* direction; the nodes 0..n-1 stand for the nodes base..base+n-1 of G, in
\* rising or in falling order.
SkeletonsOver(type, n, ends) ==
    {[type |-> type, nrNodes |-> n,
      orig |-> [m \in 1..n |-> IF rising THEN m ELSE n + 1 - m],
      edges |-> [e \in 1..Len(ends) |->
                    IF flip[e] THEN SkEdge(ends[e][2], ends[e][1], virt[e])
                               ELSE SkEdge(ends[e][1], ends[e][2], virt[e])]] :
        virt \in [1..Len(ends) -> BOOLEAN], flip \in [1..Len(ends) -> BOOLEAN],
        rising \in BOOLEAN}

Cycles(type) == UNION {SkeletonsOver(type, k, CenterEnds("S", k)) : k \in 3..MaxCycle}

Bonds(type) == UNION {SkeletonsOver(type, 2, CenterEnds("P", k)) : k \in 3..MaxBond}

Rigids(type) == SkeletonsOver(type, 4, K4Ends)

\* A type value with a skeleton it can come with: a cycle for S, a bond for
\* P, K4 for R, any of them for another value.
SkeletonsOfType(type) ==
    CASE type = 0 -> Cycles(type)
      [] type = 1 -> Bonds(type)
      [] type = 2 -> Rigids(type)
      [] OTHER    -> Cycles(type) \cup Bonds(type) \cup Rigids(type)

InitSkel ==
    /\ pc = "call"
    /\ \E type \in 0..MaxTypeValue : skel \in SkeletonsOfType(type)
    /\ comps = <<>>
    /\ compj = 1
    /\ treePos = 1
    /\ skelPos = 1
    /\ memberNodes = {}
    /\ pairs = <<>>
    /\ sk2orig = [i \in 0..(MaxSkNodes - 1) |-> 0]
    /\ ofile = <<>>
    /\ prov = <<>>
    /\ oprov = <<>>
    /\ intid2contig = [i \in 1..Len(AllNames) |-> AllNames[i]]
    /\ file = <<>>
    /\ idx = 1
    /\ nodes = <<>>
    /\ edges = <<>>
    /\ revid2contig = <<>>
    /\ contig_id = 1

\* sk2orig is set for the skeleton's nodes; getTypeString and
\* findTwoVertexCuts run and return.
CallFindTwoVertexCuts ==
    /\ pc = "call"
    /\ sk2orig' = SetSk2orig(sk2orig, skel)
    /\ pairs' = pairs \o findTwoVertexCuts(skel, SetSk2orig(sk2orig, skel), getTypeString(skel.type))
    /\ pc' = "returned"
    /\ UNCHANGED <<intid2contig, ingestVars, comps, compj, treePos, skelPos, memberNodes,
                   ofile, skel, prov, oprov>>

NextSkel == CallFindTwoVertexCuts

SpecSkel == InitSkel /\ [][NextSkel]_vars

(***************************************************************************)
(* Properties of ingestion.                                                *)
(***************************************************************************)
\* The number of the first line that does not yield seven fields
\* (Len(file) + 1 when every line does).
FirstBad ==
    IF \E k \in 1..Len(file) : file[k].nf < RequiredFields
    THEN CHOOSE k \in 1..Len(file) :
            /\ file[k].nf < RequiredFields
            /\ \A m \in 1..(k - 1) : file[m].nf >= RequiredFields
    ELSE Len(file) + 1

\* The links of the lines before the first bad one.
Ingested == SubSeq(file, 1, FirstBad - 1)

NodeNames == {intid2contig[nodes[i]] : i \in 1..Len(nodes)}

EdgeNames == [i \in 1..Len(edges) |-> <<intid2contig[edges[i][1]], intid2contig[edges[i][2]]>>]

\* C3: if line k is the first line that fails to parse, neither pass reads
\* beyond line k, and the built graph holds exactly the nodes and the edges
\* of the links on lines 1..k-1.
C3_TruncatedAtFirstBadLine ==
    /\ idx <= FirstBad
    /\ pc = "built" =>
          /\ NodeNames = {Ingested[i].a : i \in 1..Len(Ingested)}
                            \cup {Ingested[i].c : i \in 1..Len(Ingested)}
          /\ Len(nodes) = Cardinality(NodeNames)
          /\ EdgeNames = [i \in 1..Len(Ingested) |-> <<Ingested[i].a, Ingested[i].c>>]

\* A bad line followed by a line that parses and names a contig that no
\* earlier line named, with the graph built.
C3_Witness ==
    /\ pc = "built"
    /\ FirstBad >= 2
    /\ FirstBad < Len(file)
    /\ file[FirstBad + 1].nf = RequiredFields
    /\ file[FirstBad].a \notin NodeNames
    /\ file[FirstBad + 1].c \notin NodeNames

\* The lines registered so far: during the first pass the lines already read,
\* afterwards the lines before the first bad one.
Registered == IF pc = "pass1" THEN SubSeq(file, 1, idx - 1) ELSE Ingested

\* The names of a list of links in reading order: a1, c1, a2, c2, ...
Appearances(ls) ==
    [i \in 1..(2 * Len(ls)) |-> IF i % 2 = 1 THEN ls[(i + 1) \div 2].a ELSE ls[i \div 2].c]

RECURSIVE FirstSeen(_)
\* The distinct names of a sequence, in the order of their first appearance.
FirstSeen(s) ==
    IF s = <<>> THEN <<>>
    ELSE LET front == FirstSeen(SubSeq(s, 1, Len(s) - 1))
             last  == s[Len(s)]
         IN IF \E i \in 1..Len(front) : front[i] = last THEN front ELSE Append(front, last)

\* C9: there is exactly one node per distinct contig name seen, the handles
\* are 1, 2, 3, ... in first-seen order (first field before third field), and
\* a registered name keeps its handle: in every state each name seen so far
\* resolves to its first-seen rank.
C9_OneNodePerNameInFirstSeenOrder ==
    LET order == FirstSeen(Appearances(Registered))
    IN /\ nodes = [i \in 1..Len(order) |-> i]
       /\ contig_id = Len(order) + 1
       /\ \A i \in 1..Len(order) : revid2contig[order[i]] = i /\ intid2contig[i] = order[i]
       /\ \A x \in Names : (\A i \in 1..Len(order) : order[i] # x) => revid2contig[x] = 0

\* A file of well-formed lines, one of them naming the same new contig at both
\* ends, a later one introducing its third field before a later first field.
C9_Witness ==
    /\ pc = "built"
    /\ FirstBad = Len(file) + 1
    /\ Len(file) >= 2
    /\ file[1].a = file[1].c
    /\ file[2].a = file[1].a
    /\ Len(nodes) >= 2
    /\ revid2contig[file[2].c] = 2

\* The number of edges of G joining the nodes x and y, in either direction.
EdgesBetween(x, y) ==
    Cardinality({i \in 1..Len(edges) : edges[i] \in {<<x, y>>, <<y, x>>}})

\* The number of ingested links joining the contigs named p and q.
LinksBetween(p, q) ==
    Cardinality({i \in 1..Len(Ingested) :
                    <<Ingested[i].a, Ingested[i].c>> \in {<<p, q>>, <<q, p>>}})

\* C10 as stated: the built graph is simple, with no self-loop and no two
\* edges between the same two nodes.
C10_Original ==
    pc = "built" =>
        \A x, y \in 1..Len(nodes) : IF x = y THEN EdgesBetween(x, y) = 0
                                             ELSE EdgesBetween(x, y) <= 1

\* C10 amended: the built graph is a multigraph with one edge per ingested
\* link: two nodes are joined by as many edges as there are ingested links
\* between their contigs, a contig linked to itself included.
C10_OneEdgePerLink ==
    pc = "built" =>
        /\ Len(edges) = Len(Ingested)
        /\ \A x, y \in 1..Len(nodes) :
              EdgesBetween(x, y) = LinksBetween(intid2contig[x], intid2contig[y])

\* A built graph with a self-loop and with two edges between two nodes.
C10_Witness ==
    /\ pc = "built"
    /\ \E x, y \in 1..Len(nodes) : x # y /\ EdgesBetween(x, y) >= 2
    /\ \E x \in 1..Len(nodes) : EdgesBetween(x, x) >= 1

(***************************************************************************)
(* Properties of the block loop.                                           *)
(***************************************************************************)
\* The BC-tree node a history tag names.
TaggedNode(tag) == comps[tag.comp][tag.node]

\* The B-nodes of all the BC-trees, as <<component, position>>.
BNodes == {cn \in UNION {{<<c, n>> : n \in 1..Len(comps[c])} : c \in 1..Len(comps)} :
              comps[cn[1]][cn[2]].isB}

\* The number of BC-tree edges at a B-node.
Incident(bnode) == Len(bnode.incoming) + Len(bnode.outgoing)

\* Removing x and y from the graph leaves at least two pieces.
IsTwoVertexCut(es, x, y) ==
    LET rest == EndNodes(es) \ {x, y}
    IN rest # {} /\ ~isConnected(rest, es)

\* C2 as stated: every pair pushed by the R rule or the S rule is a
\* 2-vertex-cut of its block: removing its two nodes leaves the block in at
\* least two pieces.
C2_Original ==
    /\ \A i \in 1..Len(prov) :
          prov[i].rule \in {"R", "S"} =>
              IsTwoVertexCut(TaggedNode(prov[i]).edges, pairs[i][1], pairs[i][2])
    /\ \A i \in 1..Len(oprov) :
          oprov[i].rule \in {"R", "S"} =>
              IsTwoVertexCut(TaggedNode(oprov[i]).edges, oprov[i].pair[1], oprov[i].pair[2])

C5_Original ==
    \A i \in 1..Len(prov) :
        prov[i].rule = "cut" =>
            LET bnode == TaggedNode(prov[i])
                ends == bnode.incoming \o bnode.outgoing
            IN /\ Len(ends) = 2
               /\ pairs[i] \in {<<ends[1], ends[2]>>, <<ends[2], ends[1]>>}

\* C6: every record written carries, as its member list, the contig names
\* of the block in which its pair was discovered (and the names of the pair).
C6_MembersOfOriginatingBlock ==
    \A i \in 1..Len(ofile) :
        LET block == EndNodes(TaggedNode(oprov[i]).edges)
        IN /\ {ofile[i].members[m] : m \in 1..Len(ofile[i].members)}
                = {intid2contig[v] : v \in block}
           /\ Len(ofile[i].members) = Cardinality(block)
           /\ ofile[i].first = intid2contig[oprov[i].pair[1]]
           /\ ofile[i].second = intid2contig[oprov[i].pair[2]]

\* Records of two blocks of one component with a skipped block between them.
C6_Witness ==
    /\ pc = "done"
    /\ \E a, b \in 1..Len(oprov) :
          /\ oprov[a].comp = oprov[b].comp
          /\ oprov[a].node < oprov[b].node
          /\ \E n \in (oprov[a].node + 1)..(oprov[b].node - 1) :
                /\ comps[oprov[a].comp][n].isB
                /\ ~Eligible(comps[oprov[a].comp][n].edges)
          /\ ofile[a].members # ofile[b].members

(***************************************************************************)
(* Properties of findTwoVertexCuts.                                        *)
(***************************************************************************)
\* The nodes of G at the two ends of a skeleton edge.
EndsInG(sk, e) == {sk.orig[e.source + 1], sk.orig[e.target + 1]}

\* The number of pairs pushed that are made of x and y, in either order.
Pushed(x, y) == Cardinality({i \in 1..Len(pairs) : pairs[i] \in {<<x, y>>, <<y, x>>}})

\* The number of virtual / real edges of the skeleton between x and y.
VirtualBetween(sk, x, y) ==
    Cardinality({e \in 1..Len(sk.edges) : sk.edges[e].virtual /\ EndsInG(sk, sk.edges[e]) = {x, y}})

RealBetween(sk, x, y) ==
    Cardinality({e \in 1..Len(sk.edges) : ~sk.edges[e].virtual /\ EndsInG(sk, sk.edges[e]) = {x, y}})

\* C1: for an S skeleton the pairs pushed are (a) one per virtual edge, its
\* two ends, and (b) one for every two distinct nodes not joined by a real
\* edge, and none under (b) for two nodes joined by a real edge; a 4-cycle
\* of real edges gives its two diagonals.
C1_SeriesPairs ==
    (pc = "returned" /\ skel.type = 0) =>
        /\ \A x, y \in 1..skel.nrNodes :
              IF x = y THEN Pushed(x, x) = 0
              ELSE Pushed(x, y) = VirtualBetween(skel, x, y)
                                    + (IF RealBetween(skel, x, y) = 0 THEN 1 ELSE 0)
        /\ \A i \in 1..Len(pairs) : pairs[i][1] \in 1..skel.nrNodes /\ pairs[i][2] \in 1..skel.nrNodes
        /\ (skel.nrNodes = 4 /\ \A e \in 1..4 : ~skel.edges[e].virtual) =>
              /\ Len(pairs) = 2
              /\ Pushed(1, 3) = 1
              /\ Pushed(2, 4) = 1

\* The 4-cycle of real edges, with its two diagonals pushed.
C1_Witness ==
    /\ pc = "returned"
    /\ skel.type = 0
    /\ skel.nrNodes = 4
    /\ \A e \in 1..4 : ~skel.edges[e].virtual
    /\ pairs = <<<<1, 3>>, <<2, 4>>>>

\* C7 as stated: a skeleton whose type value is outside {S, P, R} raises an
\* error: it never passes through getTypeString and findTwoVertexCuts and
\* returns normally.
C7_Original == pc = "returned" => skel.type \in {0, 1, 2}

\* The virtual edges of a skeleton, in forall_edges order.
VirtualEdges(sk) == SelectSeq(sk.edges, LAMBDA e : e.virtual)

\* C8: for a P skeleton exactly one pair is pushed when it has two or more
\* virtual edges, the ends of the second one in scanning order, and none when
\* it has fewer than two.
C8_ParallelPair ==
    (pc = "returned" /\ skel.type = 1) =>
        IF Len(VirtualEdges(skel)) >= 2
        THEN pairs = <<<<skel.orig[VirtualEdges(skel)[2].source + 1],
                         skel.orig[VirtualEdges(skel)[2].target + 1]>>>>
        ELSE pairs = <<>>

\* A P skeleton with three virtual edges or more and one pair pushed.
C8_Witness ==
    /\ pc = "returned"
    /\ skel.type = 1
    /\ Len(VirtualEdges(skel)) >= 3
    /\ Len(pairs) = 1

====
